---- MODULE Spec2Model ----
(***************************************************************************)
(* A model of github.com/eachain/log: the rotation-aware file sink         *)
(* (logutil.FileWriter + logutil.WithInotify), and the Logger's buffer     *)
(* pool over the colorizing and the cached (asynchronous) sinks.           *)
(***************************************************************************)
EXTENDS Integers, Sequences, FiniteSets, TLC

\* ------------------------------------------------------------------ bounds

\* External renames of the file at the configured path.
MaxRenames == 2
\* WriteLog calls the producers issue on the rotation-aware sink.
MaxWrites == 3

\* Goroutines calling WriteLog on the inotifyWriter.
Writers == {"w1", "w2"}

\* Inodes of the file system: the initial file and one per rotation.
Inodes == 1..(MaxRenames + 1)
\* os.File objects: NewFileWriter's, WithInotify's and one per rotation.
Handles == 1..(MaxRenames + 2)
\* Descriptor numbers of the process past stdin/stdout/stderr: at most the
\* superseded file, the new file and the inotify instance are open at once.
Fds == 3..5

NoFile == 0
INOTIFY == -1

\* Failures of InotifyInit and of os.OpenFile the environment produces.
MaxFails == 2
\* The diagnostics of the watcher: "inotify init error", "inotify add watch
\* error" and "open log file error".
Diagnostics == {"init", "addwatch", "open"}

\* Logger.output calls the producers issue on the Logger.
MaxCalls == 4
\* Calls of the level methods in the runs that exercise the level filter.
MaxLevelCalls == 2
\* WithCache's cacheSize: the capacity of cachedWriter.ch.
cacheSize == 2

\* Goroutines calling the Logger's level methods.
Producers == {"p1", "p2"}
\* The sink chains a Logger is built with: WithColor(NewWriter(os.Stdout)),
\* WithCache(NewWriter(file), cacheSize), and the std Logger's
\* NewMutexWriter(os.Stderr).
Chains == {"color", "cache", "std"}
\* bytes.Buffer objects of Logger.pool and record objects of cachedWriter.pool:
\* each call allocates at most one of either.
Buffers == 1..MaxCalls
Records == 1..MaxCalls

\* log levels and the level names; p1 calls Logger.Info, p2 calls
\* Logger.Error.
Ldebug == 0
Linfo == 1
Lnotice == 2
Lwarn == 3
Lerror == 4
Lpanic == 5
Lfatal == 6
Levels == {Ldebug, Linfo, Lnotice, Lwarn, Lerror, Lpanic, Lfatal}
LevelOf(p) == IF p = "p1" THEN Linfo ELSE Lerror
levels(lvl) ==
    <<"[DEBUG]", "[INFO]", "[NOTICE]", "[WARN]", "[ERROR]", "[PANIC]",
      "[FATAL]">>[lvl + 1]
\* logutil: logColor and colorEnd.
logColor(lvl) ==
    <<"ESC[37m", "ESC[32m", "ESC[33m", "ESC[35m", "ESC[31m", "ESC[1;31m",
      "ESC[1;31m">>[lvl + 1]
colorEnd == "ESC[0m"

VARIABLES
    \* ---- construction of the sink
    cpc,         \* "new", "with": the constructor to run next; "done"; "panic"
    sinks,       \* the sinks the constructors have returned to their caller
    cerr,        \* the error of the MkdirAll or OpenFile that has failed, or "nil"
    \* ---- file system and descriptor table (the kernel's side)
    path,        \* inode linked at FileWriter.filename, NoFile when none
    content,     \* inode -> sequence of records appended to it
    ninode,      \* inodes created so far
    fdtab,       \* descriptor number -> inode, INOTIFY, or NoFile when free
    renames,     \* external renames and removals done so far
    \* ---- os.File objects
    nfile,       \* os.File objects created so far
    fileFd,      \* os.File -> its descriptor number
    fileClosed,  \* os.File -> Close has been called on it
    \* ---- FileWriter
    fp,          \* FileWriter.fp: the current os.File
    \* ---- inotifyWriter.run and the goroutine of inotifyWriter.inotify
    rpc,         \* position of the watcher task
    ifd,         \* descriptor of the inotify instance, NoFile when none
    wd,          \* inode the watch is on, NoFile when no watch is registered
    event,       \* an event of the watch is queued and not yet read
    cbFp,        \* inotifyCb's fp (the newly opened os.File)
    cbOld,       \* inotifyCb's old (the superseded os.File)
    glog,        \* diagnostic -> times the watcher printed it with glog.Printf
    nread,       \* events the watcher's syscall.Read has returned with
    tasks,       \* goroutines of inotifyWriter.inotify that are running
    \* ---- goroutines calling inotifyWriter.WriteLog
    wpc,         \* writer -> "idle" | "write"
    wfp,         \* writer -> the os.File it read from fw.fp
    wrec,        \* writer -> the record it is writing
    nrec,        \* records submitted so far
    lost,        \* records whose Write returned os.ErrClosed
    \* ---- Logger
    out,         \* Logger.out: the sink chain the Logger was built with
    now,         \* the clock time.Now reads; one tick per output call
    pool,        \* Logger.pool: the idle bytes.Buffer objects
    nbuf,        \* bytes.Buffer objects allocated by Logger.pool.New
    mem,         \* bytes.Buffer -> its bytes
    ppc,         \* producer -> position in Logger.output and the sink chain
    pt,          \* producer -> now of its output call
    plvl,        \* producer -> lvl of its output call
    pbuf,        \* producer -> buf of its output call
    prd,         \* producer -> rd of its cachedWriter.WriteLog call
    psent,       \* producer -> the bytes s held when cachedWriter.WriteLog was called
    \* ---- colorWriter over writer(os.Stdout)
    cwm,         \* colorWriter.m: the producer holding it, or "free"
    cwb,         \* colorWriter.b
    console,     \* byte slices written to os.Stdout
    \* ---- cachedWriter over writer(file)
    cwpool,      \* cachedWriter.pool: the idle records
    nrd,         \* records allocated by cachedWriter.pool.New
    rd,          \* record -> [t, level, msg (the slice), arr (msg's backing array)]
    ch,          \* cachedWriter.ch
    kpc,         \* position of WithCache's worker goroutine
    krd,         \* the worker's rd
    file,        \* the calls the inner sink received: [t, level, s]
    werr,        \* t of the inner calls whose w.Write returned an error
    inner,       \* inner WriteLog calls entered and not yet returned
    \* ---- the std Logger's writer over os.Stderr
    mwm,         \* mutexWriter.m: the producer holding it, or "free"
    stderr,      \* byte slices written to os.Stderr
    \* ---- history
    enq,         \* the accepted WriteLog calls in enqueue order: [t, level, s, by]
    diag,        \* glog.Printf reports of missed logs: [level, s as printed]
    sub,         \* t of the cachedWriter.WriteLog calls that have returned
    \* ---- the level methods of the Logger
    level,       \* Logger.level
    hist,        \* the calls of level methods made: [m (the method's level), s]
    mpc          \* position in the level method: "idle", "output", or the
                 \* process's end: "panic", "exit"

rotVars == <<cpc, sinks, cerr, path, content, ninode, fdtab, renames, nfile, fileFd, fileClosed,
             fp, rpc, ifd, wd, event, cbFp, cbOld, glog, nread, tasks,
             wpc, wfp, wrec, nrec, lost>>

logVars == <<out, werr, level, hist, mpc, now, pool, nbuf, mem, ppc, pt, plvl, pbuf, prd, psent, cwm, cwb,
             console, cwpool, nrd, rd, ch, kpc, krd, file, inner, mwm, stderr,
             enq, diag, sub>>

vars == <<rotVars, logVars>>

\* ------------------------------------------------------ kernel operations

\* The lowest free descriptor number, as open(2) and inotify_init(2) pick it.
LowestFree(tab) == CHOOSE n \in Fds :
    /\ tab[n] = NoFile
    /\ \A m \in Fds : tab[m] = NoFile => n <= m

\* write(2) on descriptor number n: appends to the inode n refers to.
SysWrite(cont, tab, n, rec) ==
    IF tab[n] \in Inodes
    THEN [cont EXCEPT ![tab[n]] = Append(@, rec)]
    ELSE cont

\* dup2(from, to): descriptor to now refers to what from refers to.
Dup2(tab, from, to) == [tab EXCEPT ![to] = tab[from]]

\* ------------------------------------------------------------- FileWriter

\* A SwapFile that returns the old file and leaves fw.fp as it was.
SwapFileKeep(new) == fp

\* FileWriter.SwapFile: installs new as fw.fp; the result is the old one.
SwapFile(new) == new

\* FileWriter.WriteLog, first half: the goroutine loads fw.fp.
WriteLogLoad(w) ==
    /\ wpc[w] = "idle"
    /\ nrec < MaxWrites
    /\ nrec' = nrec + 1
    /\ wrec' = [wrec EXCEPT ![w] = nrec + 1]
    /\ wfp' = [wfp EXCEPT ![w] = fp]
    /\ wpc' = [wpc EXCEPT ![w] = "write"]
    /\ UNCHANGED <<cpc, sinks, cerr, nread, tasks, path, content, ninode, fdtab, renames, nfile, fileFd,
                   fileClosed, fp, rpc, ifd, wd, event, cbFp, cbOld, glog, lost>>

\* FileWriter.WriteLog, second half: (*os.File).Write on the loaded file. A
\* closed os.File refuses the write (os.ErrClosed); the result is discarded.
WriteLogWrite(w) ==
    /\ wpc[w] = "write"
    /\ IF fileClosed[wfp[w]]
       THEN /\ lost' = lost \cup {wrec[w]}
            /\ UNCHANGED content
       ELSE /\ content' = SysWrite(content, fdtab, fileFd[wfp[w]], wrec[w])
            /\ UNCHANGED lost
    /\ wpc' = [wpc EXCEPT ![w] = "idle"]
    /\ UNCHANGED <<cpc, sinks, cerr, nread, tasks, path, ninode, fdtab, renames, nfile, fileFd, fileClosed,
                   fp, rpc, ifd, wd, event, cbFp, cbOld, glog, wfp, wrec, nrec>>

\* ------------------------------------------------ the external log rotator

\* mv of the file at the configured path: the inode keeps its contents and
\* its open descriptors; a watch on it queues IN_MOVE_SELF.
Rename ==
    /\ path # NoFile
    /\ renames < MaxRenames
    /\ renames' = renames + 1
    /\ path' = NoFile
    /\ event' = (event \/ wd = path)
    /\ UNCHANGED <<cpc, sinks, cerr, nread, tasks, content, ninode, fdtab, nfile, fileFd, fileClosed, fp,
                   rpc, ifd, wd, cbFp, cbOld, glog, wpc, wfp, wrec, nrec, lost>>

\* rm of the file at the configured path: the name goes, the inode lives on
\* while a descriptor is open on it. IN_DELETE_SELF is queued only when the
\* inode itself is freed, which the sink's own open descriptor prevents, and
\* the watch's mask has no IN_ATTRIB: no event.
Remove ==
    /\ path # NoFile
    /\ renames < MaxRenames
    /\ renames' = renames + 1
    /\ path' = NoFile
    /\ UNCHANGED <<cpc, sinks, cerr, nread, tasks, content, ninode, fdtab, nfile, fileFd, fileClosed,
                   fp, rpc, ifd, wd, event, cbFp, cbOld, glog,
                   wpc, wfp, wrec, nrec, lost>>

\* ---------------------------------------------------------- inotifyWriter

\* The reports of watch-initialization failures printed so far.
WatchReports == glog["init"] + glog["addwatch"]

\* glog.Printf of diagnostic k.
Printf(g, k) == [g EXCEPT ![k] = @ + 1]

\* inotify: syscall.InotifyInit.
InotifyInit ==
    /\ rpc = "init"
    /\ ifd' = LowestFree(fdtab)
    /\ fdtab' = [fdtab EXCEPT ![LowestFree(fdtab)] = INOTIFY]
    /\ rpc' = "addwatch"
    /\ UNCHANGED <<cpc, sinks, cerr, nread, tasks, path, content, ninode, renames, nfile, fileFd, fileClosed,
                   fp, wd, event, cbFp, cbOld, glog, wpc, wfp, wrec, nrec, lost>>

\* An InotifyInit failure after which the descriptor of fw.fp is closed.
InotifyInitErrClose ==
    /\ rpc = "init"
    /\ glog["init"] < MaxFails
    /\ glog' = Printf(glog, "init")
    /\ fdtab' = [fdtab EXCEPT ![fileFd[fp]] = NoFile]
    /\ rpc' = "sleep"
    /\ UNCHANGED <<cpc, sinks, cerr, nread, tasks, path, content, ninode, renames, nfile, fileFd,
                   fileClosed, fp, ifd, wd, event, cbFp, cbOld,
                   wpc, wfp, wrec, nrec, lost>>

\* inotify: syscall.InotifyInit fails (EMFILE, ENFILE, ENOMEM): a diagnostic,
\* return nil.
InotifyInitErr ==
    /\ rpc = "init"
    /\ glog["init"] < MaxFails
    /\ glog' = Printf(glog, "init")
    /\ rpc' = "sleep"
    /\ UNCHANGED <<cpc, sinks, cerr, nread, tasks, path, content, ninode, fdtab, renames, nfile,
                   fileFd, fileClosed, fp, ifd, wd, event, cbFp, cbOld,
                   wpc, wfp, wrec, nrec, lost>>

\* inotify: syscall.InotifyAddWatch on the path. With no file at the path it
\* fails (ENOENT): a diagnostic, Close(fd), return nil. Otherwise the watch
\* is registered and the goroutine that reads the event is started.
InotifyAddWatch ==
    /\ rpc = "addwatch"
    /\ IF path = NoFile
       THEN /\ glog' = Printf(glog, "addwatch")
            /\ fdtab' = [fdtab EXCEPT ![ifd] = NoFile]
            /\ ifd' = NoFile
            /\ rpc' = "sleep"
            /\ UNCHANGED <<wd, event, tasks>>
       ELSE /\ wd' = path
            /\ event' = FALSE
            /\ tasks' = tasks + 1
            /\ rpc' = "read"
            /\ UNCHANGED <<glog, fdtab, ifd>>
    /\ UNCHANGED <<cpc, sinks, cerr, nread, path, content, ninode, renames, nfile, fileFd, fileClosed,
                   fp, cbFp, cbOld, wpc, wfp, wrec, nrec, lost>>

\* A run that leaves its loop after a failed inotify.
RunStop ==
    /\ rpc = "sleep"
    /\ WatchReports < MaxFails + 1
    /\ rpc' = "stopped"
    /\ UNCHANGED <<cpc, sinks, cerr, nread, tasks, path, content, ninode, fdtab, renames, nfile,
                   fileFd, fileClosed, fp, ifd, wd, event, cbFp, cbOld, glog,
                   wpc, wfp, wrec, nrec, lost>>

\* run: time.Sleep(time.Second) after a failed inotify, then the next round.
\* The retries are capped so that the retry loop stays finite.
RunSleep ==
    /\ rpc = "sleep"
    /\ WatchReports < MaxFails + 1
    /\ rpc' = "init"
    /\ UNCHANGED <<cpc, sinks, cerr, nread, tasks, path, content, ninode, fdtab, renames, nfile, fileFd,
                   fileClosed, fp, ifd, wd, event, cbFp, cbOld, glog,
                   wpc, wfp, wrec, nrec, lost>>

\* inotify's goroutine: syscall.Read returns once an event is queued.
InotifyRead ==
    /\ rpc = "read"
    /\ event
    /\ event' = FALSE
    /\ nread' = nread + 1
    /\ rpc' = "cb_open"
    /\ UNCHANGED <<cpc, sinks, cerr, tasks, path, content, ninode, fdtab, renames, nfile, fileFd,
                   fileClosed, fp, ifd, wd, cbFp, cbOld, glog,
                   wpc, wfp, wrec, nrec, lost>>

\* inotifyCb: os.OpenFile(filename, O_WRONLY|O_CREATE|O_APPEND): creates the
\* file when the path is empty, opens the one that is there otherwise.
CbOpen ==
    /\ rpc = "cb_open"
    /\ LET ino == IF path = NoFile THEN ninode + 1 ELSE path
           n   == LowestFree(fdtab)
       IN /\ path' = ino
          /\ ninode' = IF path = NoFile THEN ninode + 1 ELSE ninode
          /\ fdtab' = [fdtab EXCEPT ![n] = ino]
          /\ nfile' = nfile + 1
          /\ fileFd' = [fileFd EXCEPT ![nfile + 1] = n]
          /\ cbFp' = nfile + 1
    /\ rpc' = "cb_swap"
    /\ UNCHANGED <<cpc, sinks, cerr, nread, tasks, content, renames, fileClosed, fp, ifd, wd, event, cbOld,
                   glog, wpc, wfp, wrec, nrec, lost>>

\* An OpenFile failure after which the current file is closed all the same.
CbOpenErrClose ==
    /\ rpc = "cb_open"
    /\ glog["open"] < MaxFails
    /\ glog' = Printf(glog, "open")
    /\ fileClosed' = [fileClosed EXCEPT ![fp] = TRUE]
    /\ fdtab' = [fdtab EXCEPT ![fileFd[fp]] = NoFile]
    /\ rpc' = "rmwatch"
    /\ UNCHANGED <<cpc, sinks, cerr, nread, tasks, path, content, ninode, renames, nfile, fileFd,
                   fp, ifd, wd, event, cbFp, cbOld, wpc, wfp, wrec, nrec, lost>>

\* inotifyCb: os.OpenFile fails (EMFILE, EACCES, ENOSPC, ...): a diagnostic,
\* return.
CbOpenErr ==
    /\ rpc = "cb_open"
    /\ glog["open"] < MaxFails
    /\ glog' = Printf(glog, "open")
    /\ rpc' = "rmwatch"
    /\ UNCHANGED <<cpc, sinks, cerr, nread, tasks, path, content, ninode, fdtab, renames, nfile,
                   fileFd, fileClosed, fp, ifd, wd, event, cbFp, cbOld,
                   wpc, wfp, wrec, nrec, lost>>

\* inotifyCb: old := iw.fs.SwapFile(fp).
CbSwap ==
    /\ rpc = "cb_swap"
    /\ cbOld' = fp
    /\ fp' = SwapFile(cbFp)
    /\ rpc' = "cb_dup2"
    /\ UNCHANGED <<cpc, sinks, cerr, nread, tasks, path, content, ninode, fdtab, renames, nfile, fileFd,
                   fileClosed, ifd, wd, event, cbFp, glog,
                   wpc, wfp, wrec, nrec, lost>>

\* inotifyCb: syscall.Dup2(int(fp.Fd()), int(old.Fd())).
CbDup2 ==
    /\ rpc = "cb_dup2"
    /\ fdtab' = Dup2(fdtab, fileFd[cbFp], fileFd[cbOld])
    /\ rpc' = "cb_sleep"
    /\ UNCHANGED <<cpc, sinks, cerr, nread, tasks, path, content, ninode, renames, nfile, fileFd, fileClosed,
                   fp, ifd, wd, event, cbFp, cbOld, glog,
                   wpc, wfp, wrec, nrec, lost>>

\* inotifyCb: time.Sleep(time.Second) elapses, then old.Close().
CbClose ==
    /\ rpc = "cb_sleep"
    /\ fileClosed' = [fileClosed EXCEPT ![cbOld] = TRUE]
    /\ fdtab' = [fdtab EXCEPT ![fileFd[cbOld]] = NoFile]
    /\ rpc' = "rmwatch"
    /\ UNCHANGED <<cpc, sinks, cerr, nread, tasks, path, content, ninode, renames, nfile, fileFd, fp, ifd,
                   wd, event, cbFp, cbOld, glog, wpc, wfp, wrec, nrec, lost>>

\* inotify's goroutine after cb: InotifyRmWatch, Close(fd), close(done); run
\* receives from done and starts the next round.
InotifyRmWatch ==
    /\ rpc = "rmwatch"
    /\ wd' = NoFile
    /\ event' = FALSE
    /\ fdtab' = [fdtab EXCEPT ![ifd] = NoFile]
    /\ ifd' = NoFile
    /\ tasks' = tasks - 1
    /\ rpc' = "init"
    /\ UNCHANGED <<cpc, sinks, cerr, nread, path, content, ninode, renames, nfile, fileFd, fileClosed,
                   fp, cbFp, cbOld, glog, wpc, wfp, wrec, nrec, lost>>

\* ----------------------------------------------------------- constructors

\* The results of os.MkdirAll and os.OpenFile.
Errs == {"nil", "EACCES"}

\* An error check that lets the constructor go on.
PanicsNever(err) == FALSE

\* if err != nil { panic(err) }.
Panics(err) == err # "nil"

\* The first error of the two calls, as the caller gets it from the panic.
FirstErr(e1, e2) == IF e1 # "nil" THEN e1 ELSE e2

\* NewFileWriter: os.MkdirAll returns e1, os.OpenFile returns e2 and, when
\* that is nil, a new os.File on the lowest free descriptor; the result is
\* &FileWriter{filename, fp}.
NewFileWriter(e1, e2) ==
    /\ cpc = "new"
    /\ cerr' = FirstErr(e1, e2)
    /\ LET reached == ~Panics(e1)
           opened  == reached /\ e2 = "nil"
           built   == reached /\ ~Panics(e2)
           ino     == IF path = NoFile THEN ninode + 1 ELSE path
           n       == LowestFree(fdtab)
       IN /\ IF opened
             THEN /\ path' = ino
                  /\ ninode' = IF path = NoFile THEN ninode + 1 ELSE ninode
                  /\ fdtab' = [fdtab EXCEPT ![n] = ino]
                  /\ nfile' = nfile + 1
                  /\ fileFd' = [fileFd EXCEPT ![nfile + 1] = n]
             ELSE UNCHANGED <<path, ninode, fdtab, nfile, fileFd>>
          /\ fp' = IF built THEN (IF opened THEN nfile + 1 ELSE NoFile) ELSE fp
          /\ sinks' = IF built THEN sinks \cup {"FileWriter"} ELSE sinks
          /\ cpc' = IF built THEN "with" ELSE "panic"
    /\ UNCHANGED <<content, renames, fileClosed, rpc, ifd, wd, event, cbFp,
                   cbOld, glog, nread, tasks, wpc, wfp, wrec, nrec, lost>>

\* WithInotify(fs): MkdirAll returns e1, OpenFile returns e2 and a new
\* os.File; old := fs.SwapFile(fp); old.Close(); go iw.run(); return iw.
WithInotify(e1, e2) ==
    /\ cpc = "with"
    /\ cerr' = FirstErr(e1, e2)
    /\ LET reached == ~Panics(e1)
           opened  == reached /\ e2 = "nil"
           built   == reached /\ ~Panics(e2)
           ino     == IF path = NoFile THEN ninode + 1 ELSE path
           n       == LowestFree(fdtab)
           new     == IF opened THEN nfile + 1 ELSE NoFile
           tab     == IF opened THEN [fdtab EXCEPT ![n] = ino] ELSE fdtab
       IN /\ IF opened
             THEN /\ path' = ino
                  /\ ninode' = IF path = NoFile THEN ninode + 1 ELSE ninode
                  /\ nfile' = nfile + 1
                  /\ fileFd' = [fileFd EXCEPT ![nfile + 1] = n]
             ELSE UNCHANGED <<path, ninode, nfile, fileFd>>
          /\ IF built
             THEN /\ fp' = SwapFile(new)
                  /\ fileClosed' = IF fp # NoFile
                                   THEN [fileClosed EXCEPT ![fp] = TRUE]
                                   ELSE fileClosed
                  /\ fdtab' = IF fp # NoFile
                              THEN [tab EXCEPT ![fileFd[fp]] = NoFile]
                              ELSE tab
                  /\ rpc' = "init"
                  /\ sinks' = sinks \cup {"inotifyWriter"}
                  /\ cpc' = "done"
             ELSE /\ fdtab' = tab
                  /\ cpc' = "panic"
                  /\ UNCHANGED <<fp, fileClosed, rpc, sinks>>
    /\ UNCHANGED <<content, renames, ifd, wd, event, cbFp, cbOld, glog, nread,
                   tasks, wpc, wfp, wrec, nrec, lost>>

\* ----------------------------------------------------------- sync.Pool

\* sync.Pool.Get: an idle item when there is one, else the item New makes
\* (the next unused object, n + 1).
GetChoices(pl, n) == IF pl = {} THEN {n + 1} ELSE pl

\* Get as a pool that hands x out and keeps it on its idle list.
GetKeep(pl, x) == pl

\* The pool after Get handed out x, and after Put(x).
Get(pl, x) == pl \ {x}
Put(pl, x) == pl \cup {x}

\* ------------------------------------------------------------ multiLogger

\* ml.loggers of the fan-out: WithCache(NewWriter(file), cacheSize), then
\* WithColor(NewWriter(os.Stdout)).
loggers == <<"cache", "color">>

\* The fan-out of the README: WithColor(NewWriter(os.Stdout)), then
\* NewWriter(file).
readmeLoggers == <<"color", "plain">>

\* The sinks Logger.out hands a record to, in the order of the calls: the
\* loop of multiLogger.Log over ml.loggers, or the one sink of a plain chain.
Sinks(o) ==
    IF o = "multi" THEN loggers
    ELSE IF o = "tee" THEN readmeLoggers
    ELSE <<o>>

\* The sink Logger.output calls first.
First(o) == Sinks(o)[1]

\* A loop that returns after its first sink.
AfterFirstOnly(o, sink) == "put"

\* Where the call goes when the WriteLog of sink has returned: the next sink
\* of the loop, or back in Logger.output at l.pool.Put(buf).
After(o, sink) ==
    LET i == CHOOSE k \in 1..Len(Sinks(o)) : Sinks(o)[k] = sink
    IN IF i < Len(Sinks(o)) THEN Sinks(o)[i + 1] ELSE "put"

\* ----------------------------------------------------------------- Logger

\* The message the producers log (the result of fmt.Sprintf).
Msg == <<"Hello">>

\* The results of fmt.Sprintf in the runs that exercise the level methods:
\* the empty string, a line, a line with its newline.
Msgs == {<<>>, <<"Hello">>, <<"Hello", "\n">>}

\* Logger.formatHeader under LstdFlags: date and time of t, then the level.
formatHeader(t, lvl) == <<ToString(t), " ", levels(lvl), " ">>

\* What Logger.output leaves in buf: header, s, and a newline when s is not
\* empty and does not end with one.
Render(t, lvl, s) ==
    formatHeader(t, lvl) \o s \o
    (IF Len(s) > 0 /\ s[Len(s)] # "\n" THEN <<"\n">> ELSE <<>>)

\* A []byte value is the storage it points into: a Logger buffer, a record's
\* own msg array, or colorWriter.b.
BufSlice(b) == <<"buf", b>>
RdSlice(r) == <<"rd", r>>
CwbSlice == <<"cwb", 0>>
NilSlice == <<"nil", 0>>
Deref(loc) ==
    IF loc[1] = "buf" THEN mem[loc[2]]
    ELSE IF loc[1] = "rd" THEN rd[loc[2]].arr
    ELSE IF loc[1] = "cwb" THEN cwb
    ELSE <<>>

\* Logger.output up to the call of out.WriteLog: now := time.Now();
\* buf := l.pool.Get(); buf.Reset(); formatHeader; WriteString(s); the newline.
Output(p) ==
    /\ ppc[p] = "idle"
    /\ now < MaxCalls
    /\ \E b \in GetChoices(pool, nbuf) :
          /\ pbuf' = [pbuf EXCEPT ![p] = b]
          /\ pool' = Get(pool, b)
          /\ nbuf' = IF b > nbuf THEN b ELSE nbuf
          /\ mem' = [mem EXCEPT ![b] = Render(now + 1, LevelOf(p), Msg)]
    /\ plvl' = [plvl EXCEPT ![p] = LevelOf(p)]
    /\ now' = now + 1
    /\ pt' = [pt EXCEPT ![p] = now + 1]
    /\ ppc' = [ppc EXCEPT ![p] = First(out)]
    /\ UNCHANGED <<out, werr, level, hist, mpc, mwm, stderr, inner, prd, psent, cwm, cwb, console, cwpool, nrd, rd, ch,
                   kpc, krd, file, enq, diag, sub>>

\* A level test that also turns away a call at the configured level.
FilteredLE(m, cfg) == m <= cfg

\* The test at the head of Debug .. Fatal: if Lxxx < l.level { return }.
Filtered(m, cfg) == m < cfg

\* What follows l.output in the level method of level m: panic(s) in Panic,
\* os.Exit(1) in Fatal, the return in the others.
Finish(m) ==
    IF m = Lpanic THEN "panic"
    ELSE IF m = Lfatal THEN "exit"
    ELSE "idle"

\* Logger.Debug .. Logger.Fatal called with a format that yields s: the
\* level test, then l.output(m, s) up to the call of out.WriteLog.
Method(p, m, s) ==
    /\ mpc = "idle"
    /\ ppc[p] = "idle"
    /\ Len(hist) < MaxLevelCalls
    /\ hist' = Append(hist, [m |-> m, s |-> s])
    /\ IF Filtered(m, level)
       THEN UNCHANGED <<mpc, now, pool, nbuf, mem, ppc, pt, plvl, pbuf>>
       ELSE /\ mpc' = "output"
            /\ \E b \in GetChoices(pool, nbuf) :
                  /\ pbuf' = [pbuf EXCEPT ![p] = b]
                  /\ pool' = Get(pool, b)
                  /\ nbuf' = IF b > nbuf THEN b ELSE nbuf
                  /\ mem' = [mem EXCEPT ![b] = Render(now + 1, m, s)]
            /\ plvl' = [plvl EXCEPT ![p] = m]
            /\ now' = now + 1
            /\ pt' = [pt EXCEPT ![p] = now + 1]
            /\ ppc' = [ppc EXCEPT ![p] = First(out)]
    /\ UNCHANGED <<out, werr, level, mwm, stderr, inner, prd, psent, cwm, cwb,
                   console, cwpool, nrd, rd, ch, kpc, krd, file, enq, diag,
                   sub>>

\* l.output has returned in the level method: panic(s), os.Exit(1), or the
\* return to the caller.
MethodReturn(p) ==
    /\ mpc = "output"
    /\ ppc[p] = "idle"
    /\ mpc' = Finish(hist[Len(hist)].m)
    /\ UNCHANGED <<out, werr, level, hist, mwm, stderr, inner, now, pool, nbuf,
                   mem, ppc, pt, plvl, pbuf, prd, psent, cwm, cwb, console,
                   cwpool, nrd, rd, ch, kpc, krd, file, enq, diag, sub>>

\* Logger.output: l.pool.Put(buf), after out.WriteLog has returned.
PutBuf(p) ==
    /\ ppc[p] = "put"
    /\ pool' = Put(pool, pbuf[p])
    /\ ppc' = [ppc EXCEPT ![p] = "idle"]
    /\ pt' = [pt EXCEPT ![p] = 0]
    /\ plvl' = [plvl EXCEPT ![p] = 0]
    /\ pbuf' = [pbuf EXCEPT ![p] = 0]
    /\ prd' = [prd EXCEPT ![p] = 0]
    /\ psent' = [psent EXCEPT ![p] = <<>>]
    /\ UNCHANGED <<out, werr, level, hist, mpc, mwm, stderr, inner, now, nbuf, mem, cwm, cwb, console, cwpool, nrd, rd, ch,
                   kpc, krd, file, enq, diag, sub>>

\* ------------------------------------------------------------ colorWriter

\* colorWriter.WriteLog: what it builds in cw.b from s.
Colored(lvl, s) == <<logColor(lvl)>> \o s \o <<colorEnd>>

\* A colorWriter that builds its output in the array of the caller's s.
ColorBufCaller(p) == BufSlice(pbuf[p])

\* The array the appends of colorWriter.WriteLog write into: cw.b[:0], the
\* colorWriter's own.
ColorBuf(p) == CwbSlice

\* A WriteLog that fills cw.b without taking cw.m.
ColorFillNoLock(p) ==
    /\ ppc[p] = "color"
    /\ cwm' = p
    /\ LET dst == ColorBuf(p)
           b == Colored(plvl[p], Deref(BufSlice(pbuf[p])))
       IN /\ cwb' = IF dst = CwbSlice THEN b ELSE cwb
          /\ mem' = IF dst[1] = "buf" THEN [mem EXCEPT ![dst[2]] = b] ELSE mem
    /\ ppc' = [ppc EXCEPT ![p] = "color_write"]
    /\ UNCHANGED <<out, werr, level, hist, mpc, mwm, stderr, inner, now, pool, nbuf, pt, plvl, pbuf,
                   prd, psent, console, cwpool, nrd, rd, ch, kpc, krd, file,
                   enq, diag, sub>>

\* colorWriter.WriteLog: cw.m.Lock(); cw.b = cw.b[:0]; the three appends
\* leave color + s + colorEnd in the array of cw.b.
ColorFill(p) ==
    /\ ppc[p] = "color"
    /\ cwm = "free"
    /\ cwm' = p
    /\ LET dst == ColorBuf(p)
           b == Colored(plvl[p], Deref(BufSlice(pbuf[p])))
       IN /\ cwb' = IF dst = CwbSlice THEN b ELSE cwb
          /\ mem' = IF dst[1] = "buf" THEN [mem EXCEPT ![dst[2]] = b] ELSE mem
    /\ ppc' = [ppc EXCEPT ![p] = "color_write"]
    /\ UNCHANGED <<out, werr, level, hist, mpc, mwm, stderr, inner, now, pool, nbuf, pt, plvl, pbuf,
                   prd, psent, console, cwpool, nrd, rd, ch, kpc, krd, file,
                   enq, diag, sub>>

\* colorWriter.WriteLog: cw.w.WriteLog(t, level, cw.b), which is
\* writer.WriteLog's w.Write(s) on os.Stdout; then cw.m.Unlock().
ColorWrite(p) ==
    /\ ppc[p] = "color_write"
    /\ console' = Append(console, Deref(ColorBuf(p)))
    /\ cwm' = "free"
    /\ ppc' = [ppc EXCEPT ![p] = After(out, "color")]
    /\ UNCHANGED <<out, werr, level, hist, mpc, mwm, stderr, inner, now, pool, nbuf, mem, pt, plvl, pbuf, prd, psent, cwb,
                   cwpool, nrd, rd, ch, kpc, krd, file, enq, diag, sub>>

\* WriteLog of the fan-out's NewWriter(file): wr.w.Write(s) on the file.
PlainWrite(p) ==
    /\ ppc[p] = "plain"
    /\ file' = Append(file, [t |-> pt[p], level |-> plvl[p],
                             s |-> Deref(BufSlice(pbuf[p]))])
    /\ ppc' = [ppc EXCEPT ![p] = After(out, "plain")]
    /\ UNCHANGED <<out, werr, level, hist, mpc, mwm, stderr, inner, now, pool, nbuf, mem, pt, plvl,
                   pbuf, prd, psent, cwm, cwb, console, cwpool, nrd, rd, ch,
                   kpc, krd, enq, diag, sub>>

\* ------------------------------------------- writer, mutexWriter and std

\* The Writer values of package log: writer{w} calls w.Write with no lock,
\* mutexWriter{m, w} calls it between m.Lock() and m.Unlock().
writer(w) == [type |-> "writer", w |-> w]
mutexWriter(w) == [type |-> "mutexWriter", w |-> w]

\* NewMutexWriter: return writer{w: w}.
NewMutexWriter(w) == writer(w)

\* init: std = NewLogger(NewMutexWriter(os.Stderr), LstdFlags, Linfo); the
\* Writer std is built with.
stdOut == NewMutexWriter("os.Stderr")

\* WriteLog of std's Writer is entered: a mutexWriter first takes mw.m; the
\* call of w.Write(s) begins.
StdWriteBegin(p) ==
    /\ ppc[p] = "std"
    /\ stdOut.type = "mutexWriter" => mwm = "free"
    /\ mwm' = IF stdOut.type = "mutexWriter" THEN p ELSE mwm
    /\ ppc' = [ppc EXCEPT ![p] = "std_write"]
    /\ UNCHANGED <<out, werr, level, hist, mpc, stderr, inner, now, pool, nbuf, mem, pt, plvl, pbuf, prd,
                   psent, cwm, cwb, console, cwpool, nrd, rd, ch, kpc, krd,
                   file, enq, diag, sub>>

\* w.Write(s) on os.Stderr returns; a mutexWriter releases mw.m.
StdWriteEnd(p) ==
    /\ ppc[p] = "std_write"
    /\ stderr' = Append(stderr, Deref(BufSlice(pbuf[p])))
    /\ mwm' = IF stdOut.type = "mutexWriter" THEN "free" ELSE mwm
    /\ ppc' = [ppc EXCEPT ![p] = After(out, "std")]
    /\ UNCHANGED <<out, werr, level, hist, mpc, inner, now, pool, nbuf, mem, pt, plvl, pbuf, prd, psent,
                   cwm, cwb, console, cwpool, nrd, rd, ch, kpc, krd, file,
                   enq, diag, sub>>

\* ----------------------------------------------------------- cachedWriter

\* The copy as append(rd.msg, s...), without the truncation to length 0.
MsgCopyNoReset(old, s) == old \o s

\* rd.msg = s: the record keeps the caller's slice instead of a copy.
RdMsgAlias(r, s) == s

\* rd.msg = append(rd.msg[:0], s...): the bytes of rd's array afterwards, and
\* the slice rd.msg then is (it points into rd's own array).
MsgCopy(old, s) == SubSeq(old, 1, 0) \o s
RdMsg(r, s) == RdSlice(r)

\* A channel that never reports itself full.
CanSendAlways(q) == TRUE

\* select { case cw.ch <- rd: ... }: the send can proceed.
CanSend(q) == Len(q) < cacheSize

\* A send that returns without the record in the channel.
SendLose(q, r) == q

\* A send that puts the record at the head of the queue.
SendFirst(q, r) == <<r>> \o q

\* case cw.ch <- rd: the channel after the send.
Send(q, r) == Append(q, r)

\* fmt's %v of a []byte: the decimal value of each byte, in brackets.
FmtV(s) == [i \in 1..Len(s) |-> <<"%v", s[i]>>]

\* A default case that reports nothing.
MissedSilent(d, lvl, s) == d

\* default: glog.Printf("cached logger: miss log, level: %v, message: %v",
\* level, s): the diagnostics after the report.
Missed(d, lvl, s) == Append(d, [level |-> lvl, s |-> FmtV(s)])

\* A receive that takes the newest record instead of the oldest.
ReceiveLast(q) == [rd |-> q[Len(q)], rest |-> SubSeq(q, 1, Len(q) - 1)]

\* for rd := range cw.ch: the record received and the channel afterwards.
Receive(q) == [rd |-> Head(q), rest |-> Tail(q)]

\* cachedWriter.WriteLog: rd := cw.pool.Get(); rd.t, rd.level, rd.msg = ...
CacheGet(p) ==
    /\ ppc[p] = "cache"
    /\ \E r \in GetChoices(cwpool, nrd) :
          /\ cwpool' = Get(cwpool, r)
          /\ nrd' = IF r > nrd THEN r ELSE nrd
          /\ prd' = [prd EXCEPT ![p] = r]
          /\ rd' = [rd EXCEPT ![r] =
                      [t |-> pt[p], level |-> plvl[p],
                       msg |-> RdMsg(r, BufSlice(pbuf[p])),
                       arr |-> MsgCopy(rd[r].arr, Deref(BufSlice(pbuf[p])))]]
    /\ psent' = [psent EXCEPT ![p] = Deref(BufSlice(pbuf[p]))]
    /\ ppc' = [ppc EXCEPT ![p] = "select"]
    /\ UNCHANGED <<out, werr, level, hist, mpc, mwm, stderr, inner, now, pool, nbuf, mem, pt, plvl, pbuf, cwm, cwb, console,
                   ch, kpc, krd, file, enq, diag, sub>>

\* The send as a plain cw.ch <- rd, without the default case.
CacheSendBlocking(p) ==
    /\ ppc[p] = "select"
    /\ CanSend(ch)
    /\ ch' = Send(ch, prd[p])
    /\ enq' = Append(enq, [t |-> pt[p], level |-> plvl[p],
                           s |-> psent[p], by |-> p])
    /\ sub' = sub \cup {pt[p]}
    /\ ppc' = [ppc EXCEPT ![p] = After(out, "cache")]
    /\ UNCHANGED <<out, werr, level, hist, mpc, mwm, stderr, inner, now, pool, nbuf, mem, pt, plvl, pbuf, prd, psent, cwm, cwb,
                   console, cwpool, nrd, rd, kpc, krd, file, diag>>

\* cachedWriter.WriteLog: the select: send rd, or report the missed log.
CacheSend(p) ==
    /\ ppc[p] = "select"
    /\ IF CanSend(ch)
       THEN /\ ch' = Send(ch, prd[p])
            /\ enq' = Append(enq, [t |-> pt[p], level |-> plvl[p],
                                   s |-> psent[p], by |-> p])
            /\ UNCHANGED diag
       ELSE /\ diag' = Missed(diag, plvl[p], Deref(BufSlice(pbuf[p])))
            /\ UNCHANGED <<ch, enq>>
    /\ sub' = sub \cup {pt[p]}
    /\ ppc' = [ppc EXCEPT ![p] = After(out, "cache")]
    /\ UNCHANGED <<out, werr, level, hist, mpc, mwm, stderr, inner, now, pool, nbuf, mem, pt, plvl, pbuf, prd, psent, cwm, cwb,
                   console, cwpool, nrd, rd, kpc, krd, file>>

\* WithCache's goroutine: rd := <-cw.ch.
WorkerRecv ==
    /\ kpc = "recv"
    /\ Len(ch) > 0
    /\ krd' = Receive(ch).rd
    /\ ch' = Receive(ch).rest
    /\ kpc' = "call"
    /\ UNCHANGED <<out, werr, level, hist, mpc, mwm, stderr, inner, now, pool, nbuf, mem, ppc, pt, plvl, pbuf, prd, psent, cwm,
                   cwb, console, cwpool, nrd, rd, file, enq, diag, sub>>

\* The worker's position after it has issued the inner call as
\* go cw.wr.WriteLog(...): back at the channel without waiting.
InnerCallGo == "recv"

\* The worker's position after it has called cw.wr.WriteLog(...): the call is
\* a plain call, so the worker waits in it until it returns.
InnerCall == "wait"

\* WithCache's goroutine: cw.wr.WriteLog(rd.t, rd.level, rd.msg) is entered;
\* the inner sink (writer.WriteLog) takes the bytes rd.msg points at.
WorkerCall ==
    /\ kpc = "call"
    /\ file' = Append(file, [t |-> rd[krd].t, level |-> rd[krd].level,
                             s |-> Deref(rd[krd].msg)])
    /\ inner' = inner + 1
    /\ kpc' = InnerCall
    /\ UNCHANGED <<out, werr, level, hist, mpc, mwm, stderr, now, pool, nbuf, mem, ppc, pt, plvl, pbuf, prd, psent, cwm,
                   cwb, console, cwpool, nrd, rd, ch, krd, enq, diag, sub>>

\* WithCache's goroutine: the inner WriteLog returns (a stalled inner sink
\* never takes this step); cw.pool.Put(rd).
WorkerReturn ==
    /\ kpc = "wait"
    /\ cwpool' = Put(cwpool, krd)
    /\ krd' = 0
    /\ inner' = inner - 1
    /\ kpc' = "recv"
    /\ UNCHANGED <<out, werr, level, hist, mpc, mwm, stderr, now, pool, nbuf, mem, ppc, pt, plvl, pbuf, prd, psent, cwm,
                   cwb, console, nrd, rd, ch, file, enq, diag, sub>>

\* A worker that leaves its loop when the inner write has failed.
AfterWriteErrStop == "stopped"

\* The worker's position after an inner call whose write failed: WriteLog
\* has no result, so the loop goes on as after any call.
AfterWriteErr == "recv"

\* WithCache's goroutine: the inner WriteLog returns after wr.w.Write(s)
\* returned an error, which writer.WriteLog discards; cw.pool.Put(rd).
WorkerReturnErr ==
    /\ kpc = "wait"
    /\ werr' = werr \cup {rd[krd].t}
    /\ cwpool' = Put(cwpool, krd)
    /\ krd' = 0
    /\ inner' = inner - 1
    /\ kpc' = AfterWriteErr
    /\ UNCHANGED <<out, level, hist, mpc, mwm, stderr, now, pool, nbuf, mem, ppc, pt, plvl, pbuf,
                   prd, psent, cwm, cwb, console, nrd, rd, ch, file, enq,
                   diag, sub>>

\* NewLogger and the sinks' constructors: empty pools, an empty channel, the
\* worker waiting on it.
InitLogger ==
    /\ now = 0
    /\ pool = {}
    /\ nbuf = 0
    /\ mem = [b \in Buffers |-> <<>>]
    /\ ppc = [p \in Producers |-> "idle"]
    /\ pt = [p \in Producers |-> 0]
    /\ plvl = [p \in Producers |-> 0]
    /\ pbuf = [p \in Producers |-> 0]
    /\ prd = [p \in Producers |-> 0]
    /\ psent = [p \in Producers |-> <<>>]
    /\ cwm = "free"
    /\ cwb = <<>>
    /\ console = <<>>
    /\ cwpool = {}
    /\ nrd = 0
    /\ rd = [r \in Records |-> [t |-> 0, level |-> 0, msg |-> NilSlice, arr |-> <<>>]]
    /\ ch = <<>>
    /\ kpc = "recv"
    /\ krd = 0
    /\ file = <<>>
    /\ werr = {}
    /\ inner = 0
    /\ mwm = "free"
    /\ stderr = <<>>
    /\ enq = <<>>
    /\ diag = <<>>
    /\ sub = {}
    /\ hist = <<>>
    /\ mpc = "idle"

\* A Logger over one of the plain chains.
InitLog ==
    /\ out \in Chains
    /\ level = Linfo
    /\ InitLogger

\* The goroutine that calls the level methods in the runs that exercise
\* the level filter.
Caller == "p1"

\* A Logger over NewWriter(os.Stderr) after SetLevel(level).
InitCall ==
    /\ out = "std"
    /\ level \in Levels
    /\ InitLogger

\* The goroutine that logs in the runs with failing writes.
Feeders == {"p1"}

\* A Logger over the cachedWriter.
InitCache ==
    /\ level = Linfo
    /\ out = "cache"
    /\ InitLogger

\* A Logger over the README's fan-out of the colorWriter and the file.
InitTee ==
    /\ level = Linfo
    /\ out = "tee"
    /\ InitLogger

\* A Logger over the fan-out of the cachedWriter and the colorWriter.
InitMulti ==
    /\ level = Linfo
    /\ out = "multi"
    /\ InitLogger

NextLog ==
    \/ \E p \in Producers : Output(p)
    \/ \E p \in Producers : ColorFill(p)
    \/ \E p \in Producers : ColorWrite(p)
    \/ \E p \in Producers : CacheGet(p)
    \/ \E p \in Producers : CacheSend(p)
    \/ \E p \in Producers : StdWriteBegin(p)
    \/ \E p \in Producers : StdWriteEnd(p)
    \/ \E p \in Producers : PutBuf(p)
    \/ WorkerRecv
    \/ WorkerCall
    \/ WorkerReturn

\* ------------------------------------------------------------------- Init

\* NewFileWriter opened os.File 1 on descriptor 3; WithInotify opened os.File
\* 2 on descriptor 4, swapped it in, closed os.File 1 and started run.
InitRotate ==
    /\ cpc = "done"
    /\ sinks = {"FileWriter", "inotifyWriter"}
    /\ cerr = "nil"
    /\ path = 1
    /\ content = [i \in Inodes |-> <<>>]
    /\ ninode = 1
    /\ fdtab = [n \in Fds |-> IF n = 4 THEN 1 ELSE NoFile]
    /\ renames = 0
    /\ nfile = 2
    /\ fileFd = [h \in Handles |-> IF h = 1 THEN 3 ELSE IF h = 2 THEN 4 ELSE NoFile]
    /\ fileClosed = [h \in Handles |-> h = 1]
    /\ fp = 2
    /\ rpc = "init"
    /\ ifd = NoFile
    /\ wd = NoFile
    /\ event = FALSE
    /\ cbFp = NoFile
    /\ cbOld = NoFile
    /\ glog = [k \in Diagnostics |-> 0]
    /\ nread = 0
    /\ tasks = 0
    /\ wpc = [w \in Writers |-> "idle"]
    /\ wfp = [w \in Writers |-> NoFile]
    /\ wrec = [w \in Writers |-> 0]
    /\ nrec = 0
    /\ lost = {}

Init == InitRotate /\ InitLog

\* The process before NewFileWriter: no log file, no descriptor past the
\* standard three, no goroutine of the sink.
InitConstruct ==
    /\ cpc = "new"
    /\ sinks = {}
    /\ cerr = "nil"
    /\ path = NoFile
    /\ content = [i \in Inodes |-> <<>>]
    /\ ninode = 0
    /\ fdtab = [n \in Fds |-> NoFile]
    /\ renames = 0
    /\ nfile = 0
    /\ fileFd = [h \in Handles |-> NoFile]
    /\ fileClosed = [h \in Handles |-> FALSE]
    /\ fp = NoFile
    /\ rpc = "off"
    /\ ifd = NoFile
    /\ wd = NoFile
    /\ event = FALSE
    /\ cbFp = NoFile
    /\ cbOld = NoFile
    /\ glog = [k \in Diagnostics |-> 0]
    /\ nread = 0
    /\ tasks = 0
    /\ wpc = [w \in Writers |-> "idle"]
    /\ wfp = [w \in Writers |-> NoFile]
    /\ wrec = [w \in Writers |-> 0]
    /\ nrec = 0
    /\ lost = {}

\* The steps of the watcher task: run and the goroutine of inotify, one of
\* which is waiting for the other at any time.
Watcher ==
    \/ InotifyInit
    \/ InotifyAddWatch
    \/ RunSleep
    \/ InotifyRead
    \/ CbOpen
    \/ CbSwap
    \/ CbDup2
    \/ CbClose
    \/ InotifyRmWatch

\* The sink with an environment in which InotifyInit and OpenFile succeed.
NextRotateOk ==
    \/ \E w \in Writers : WriteLogLoad(w)
    \/ \E w \in Writers : WriteLogWrite(w)
    \/ Rename
    \/ Remove
    \/ Watcher

NextRotate ==
    \/ NextRotateOk
    \/ InotifyInitErr
    \/ CbOpenErr

\* The sink under WithInotify; the Logger's side is at rest.
InitSink == InitRotate /\ InitMulti

SpecRotate == InitSink /\ [][NextRotate /\ UNCHANGED logVars]_vars

\* WithInotify(NewFileWriter(filename)) in an environment whose MkdirAll and
\* OpenFile may fail, and the sink at work once the caller has it.
NextConstruct ==
    \/ \E e1, e2 \in Errs : NewFileWriter(e1, e2)
    \/ \E e1, e2 \in Errs : WithInotify(e1, e2)
    \/ cpc = "done" /\ NextRotate

\* The process before construction; the Logger's side is at rest.
InitProcess == InitConstruct /\ InitMulti

SpecConstruct == InitProcess /\ [][NextConstruct /\ UNCHANGED logVars]_vars

\* The same with the watcher task and the writers scheduled: a step of
\* theirs that stays possible is eventually taken. The external rotator and
\* the environment's failures are under no such obligation.
SpecRotateFair ==
    /\ InitSink
    /\ [][NextRotateOk /\ UNCHANGED logVars]_vars
    /\ WF_vars(Watcher /\ UNCHANGED logVars)
    /\ \A w \in Writers : WF_vars(WriteLogWrite(w) /\ UNCHANGED logVars)

SpecLog == Init /\ [][NextLog /\ UNCHANGED rotVars]_vars

\* The fan-out while the inner sink of its cachedWriter is stalled for good:
\* the worker's first inner call never returns.
NextFan ==
    \/ \E p \in Producers : Output(p)
    \/ \E p \in Producers : CacheGet(p)
    \/ \E p \in Producers : CacheSend(p)
    \/ \E p \in Producers : ColorFill(p)
    \/ \E p \in Producers : ColorWrite(p)
    \/ \E p \in Producers : PutBuf(p)
    \/ WorkerRecv
    \/ WorkerCall

SpecFan == InitSink /\ [][NextFan /\ UNCHANGED rotVars]_vars

\* The steps of WithCache's goroutine over a file whose writes may fail.
Worker ==
    \/ WorkerRecv
    \/ WorkerCall
    \/ WorkerReturn
    \/ WorkerReturnErr

\* The cachedWriter over a file whose writes may fail, fed by one goroutine.
NextErr ==
    \/ \E p \in Feeders : Output(p)
    \/ \E p \in Feeders : CacheGet(p)
    \/ \E p \in Feeders : CacheSend(p)
    \/ \E p \in Feeders : PutBuf(p)
    \/ Worker

\* The Logger over the cachedWriter; the sink under WithInotify is at rest.
InitErr == InitRotate /\ InitCache

SpecErr == InitErr /\ [][NextErr /\ UNCHANGED rotVars]_vars

\* The same with the worker goroutine scheduled and every inner call
\* returning, with or without an error: a step of the worker that stays
\* possible is eventually taken. The producer is under no such obligation.
SpecErrFair ==
    /\ InitErr
    /\ [][NextErr /\ UNCHANGED rotVars]_vars
    /\ WF_vars(Worker /\ UNCHANGED rotVars)

\* One goroutine calling the level methods of a Logger over os.Stderr.
NextCall ==
    \/ \E m \in Levels, s \in Msgs : Method(Caller, m, s)
    \/ StdWriteBegin(Caller)
    \/ StdWriteEnd(Caller)
    \/ PutBuf(Caller)
    \/ MethodReturn(Caller)

\* The Logger of the level-method runs; the sink under WithInotify is at rest.
InitLevels == InitRotate /\ InitCall

SpecCall == InitLevels /\ [][NextCall /\ UNCHANGED rotVars]_vars

\* The README's fan-out: a colored console and an uncolored file.
NextTee ==
    \/ \E p \in Producers : Output(p)
    \/ \E p \in Producers : ColorFill(p)
    \/ \E p \in Producers : ColorWrite(p)
    \/ \E p \in Producers : PlainWrite(p)
    \/ \E p \in Producers : PutBuf(p)

\* The Logger over the README's fan-out; the sink under WithInotify is at rest.
InitReadme == InitRotate /\ InitTee

SpecTee == InitReadme /\ [][NextTee /\ UNCHANGED rotVars]_vars

\* ------------------------------------------ claims on the rotation-aware sink

\* A record is in flight while its WriteLog has loaded fw.fp and not written.
InFlight(r) == \E w \in Writers : wpc[w] = "write" /\ wrec[w] = r

\* The places (inode, position) where record r is stored.
Copies(r) == {ik \in Inodes \X (1..MaxWrites) :
                 /\ ik[2] <= Len(content[ik[1]])
                 /\ content[ik[1]][ik[2]] = r}

\* C1 (rotation no-loss): every record whose WriteLog has returned is stored
\* exactly once in the union of the renamed files and the file at the path,
\* whenever the external renames happen.
C1_RotationNoLoss ==
    \A r \in 1..nrec : ~InFlight(r) => Cardinality(Copies(r)) = 1

\* C2 (one common lock): fw.fp is never replaced (SwapFile) while a WriteLog
\* is between loading fw.fp and finishing its write.
C2_SwapExcludesWrite ==
    [][fp' # fp => \A w \in Writers : wpc[w] # "write"]_vars

\* C3 (close after in-flight writes): no WriteLog issues its write on an
\* os.File that has already been closed.
C3_NoWriteOnClosedHandle ==
    \A w \in Writers : wpc[w] = "write" => ~fileClosed[wfp[w]]

\* C4 (watch never absent): whenever the FileWriter holds an open os.File a
\* watch is registered.
C4_WatchWhileOpen ==
    ~fileClosed[fp] => wd # NoFile

\* ------------------------------------- claims on the Logger and its sinks

\* Inner WriteLog calls of the worker that have returned.
InnerReturned == Len(file) - (IF kpc = "wait" THEN 1 ELSE 0)

\* The output call of p has acquired its buffer and not yet released it.
Held(p) == ppc[p] # "idle"

\* The records whose bytes the inner sink has yet to be handed.
PendingRd == {ch[i] : i \in 1..Len(ch)} \cup (IF kpc = "call" THEN {krd} ELSE {})

\* The slices a sink still has to read, each with the time of the output call
\* it came from: s in colorWriter.WriteLog and cachedWriter.WriteLog before
\* their copy and before the missed-log report, and rd.msg of each record the
\* worker has not handed over yet.
SinkRefs ==
    {[loc |-> BufSlice(pbuf[p]), t |-> pt[p]] :
        p \in {q \in Producers : ppc[q] \in {"color", "cache", "select"}}}
    \cup {[loc |-> rd[r].msg, t |-> rd[r].t] : r \in PendingRd}

\* C5 as stated (async boundedness): the records accepted and not yet handed
\* to the inner sink never exceed cacheSize, and while the inner sink has
\* completed no call at least (submitted - cacheSize) records are dropped.
C5_BoundedByCapacity ==
    /\ Len(enq) - Len(file) <= cacheSize
    /\ InnerReturned = 0 => Len(diag) >= Cardinality(sub) - cacheSize

\* C5 as amended: the records accepted whose inner call has not returned
\* never exceed cacheSize + 1 (cacheSize in the channel and one in the
\* worker's hands); while the inner sink has completed no call at least
\* (submitted - cacheSize - 1) records are dropped; and every dropped record
\* is reported exactly once.
C5_BoundedByCapacityPlusOne ==
    /\ Len(enq) - InnerReturned <= cacheSize + 1
    /\ InnerReturned = 0 => Len(diag) >= Cardinality(sub) - (cacheSize + 1)
    /\ \A t \in sub :
          (\A i \in 1..Len(enq) : enq[i].t # t) =>
             Cardinality({j \in 1..Len(diag) : diag[j].s = FmtV(Render(t, diag[j].level, Msg))}) = 1

\* The inner sink is stalled inside its first call, cacheSize + 1 records
\* have been accepted and one more has been dropped and reported.
C5_Witness ==
    /\ kpc = "wait"
    /\ InnerReturned = 0
    /\ Len(enq) = cacheSize + 1
    /\ Len(diag) = 1

C7_DeliveredInEnqueueOrder ==
    /\ Len(file) <= Len(enq)
    /\ \A i \in 1..Len(file) : file[i].t = enq[i].t
    /\ \A i, j \in 1..Len(file) :
          (i < j /\ enq[i].by = enq[j].by) => file[i].t < file[j].t

\* Records of both producers have been delivered, not in the order of their
\* output calls, and a record has been dropped.
C7_Witness ==
    /\ Len(file) = 3
    /\ Len(diag) = 1
    /\ file[1].t > file[2].t
    /\ enq[1].by = enq[3].by

\* C8 (payload copied): the bytes the inner sink is handed for a record are
\* the bytes the caller's slice held when cachedWriter.WriteLog was called.
C8_PayloadAsSubmitted ==
    \A i \in 1..Len(file) :
        \E j \in 1..Len(enq) : enq[j].t = file[i].t /\ enq[j].s = file[i].s

\* The inner sink has just been handed a record while every Logger buffer
\* holds the bytes of a later output call.
C8_Witness ==
    /\ kpc = "wait"
    /\ \A b \in 1..nbuf : mem[b] # file[Len(file)].s
    /\ \A p \in Producers : pt[p] # file[Len(file)].t

\* C9 (pool correctness): every allocated buffer is owned by exactly one of
\* the pool and a single output call in progress.
C9_BufferHasOneOwner ==
    \A b \in 1..nbuf :
        Cardinality({p \in Producers : Held(p) /\ pbuf[p] = b})
            + (IF b \in pool THEN 1 ELSE 0) = 1

\* Both producers hold a buffer at once and a buffer has been recycled.
C9_Witness ==
    /\ \A p \in Producers : Held(p)
    /\ now > nbuf

\* C10 (release after the last read): every slice of a Logger buffer that a
\* sink still has to read belongs to a buffer that is checked out by the
\* output call the slice came from.
C10_NoReadAfterRelease ==
    \A ref \in SinkRefs :
        ref.loc[1] = "buf" =>
            /\ ref.loc[2] \notin pool
            /\ \E p \in Producers :
                   Held(p) /\ pbuf[p] = ref.loc[2] /\ pt[p] = ref.t

\* A record is still queued after its output call has returned and every
\* Logger buffer is idle or holds the bytes of another call.
C10_Witness ==
    \E i \in 1..Len(ch) :
        /\ \A p \in Producers : pt[p] # rd[ch[i]].t
        /\ \A b \in 1..nbuf : b \in pool \/ mem[b] # rd[ch[i]].arr

\* C11 (NewMutexWriter is safe for concurrent use): no two Write calls on
\* os.Stderr issued through the std Logger's Writer are in progress at once.
C11_WritesDoNotOverlap ==
    Cardinality({p \in Producers : ppc[p] = "std_write"}) <= 1

\* C12 (the inner sink is never called concurrently): at most one inner
\* WriteLog call of the cachedWriter is in progress, and it is the one the
\* single worker is waiting in.
C12_OneInnerCallAtATime ==
    /\ inner <= 1
    /\ inner = 1 <=> kpc = "wait"

\* The worker is inside an inner call while a record is queued and both
\* producers are inside cachedWriter.WriteLog.
C12_Witness ==
    /\ inner = 1
    /\ Len(ch) > 0
    /\ \A p \in Producers : ppc[p] \in {"cache", "select"}

\* C13 (drop policy): a cachedWriter.WriteLog that finds the channel full
\* returns with the channel and the accepted records unchanged and exactly
\* one report added, which carries the level and the bytes of the record;
\* one that finds room enqueues its record and reports nothing.
C13_DropPolicy ==
    [][\A p \in Producers :
          (ppc[p] = "select" /\ ppc'[p] # "select") =>
             /\ ppc'[p] = "put"
             /\ IF Len(ch) >= cacheSize
                THEN /\ ch' = ch
                     /\ enq' = enq
                     /\ diag' = Append(diag, [level |-> plvl[p],
                                              s |-> FmtV(psent[p])])
                ELSE /\ diag' = diag
                     /\ ch' = Append(ch, prd[p])
                     /\ Len(enq') = Len(enq) + 1]_vars

\* A WriteLog call found the channel full and has returned: its record is
\* reported and is not among the accepted ones, and the channel is still full.
C13_Witness ==
    \E p \in Producers :
        /\ ppc[p] = "put"
        /\ Len(ch) = cacheSize
        /\ \A i \in 1..Len(enq) : enq[i].t # pt[p]
        /\ Len(diag) = 1
        /\ diag[1] = [level |-> plvl[p], s |-> FmtV(psent[p])]

\* No WriteLog call is between taking its record and the select, the channel
\* is empty and the worker is back at the channel.
Drained ==
    /\ \A p \in Producers : ppc[p] \notin {"cache", "select"}
    /\ ch = <<>>
    /\ kpc = "recv"

\* C19 (end-to-end chain): once the channel has drained, the inner file sink
\* has been handed exactly the accepted records, each once and with the bytes
\* rendered for it, in the order they were accepted (for one producer, the
\* order of its calls), and no record that was reported as dropped.
C19_FileHoldsAcceptedInOrder ==
    Drained =>
        /\ Len(file) = Len(enq)
        /\ \A i \in 1..Len(file) :
              /\ file[i].t = enq[i].t
              /\ file[i].s = Render(enq[i].t, enq[i].level, Msg)
        /\ \A i, j \in 1..Len(file) : i # j => file[i].t # file[j].t
        /\ \A i, j \in 1..Len(file) :
              (i < j /\ enq[i].by = enq[j].by) => file[i].t < file[j].t
        /\ \A i \in 1..Len(file), j \in 1..Len(diag) :
              FmtV(file[i].s) # diag[j].s

\* The channel has drained after a stall in which it was full and a record
\* was dropped: the file sink has received cacheSize + 1 records.
C19_Witness ==
    /\ Drained
    /\ Len(diag) = 1
    /\ Len(file) = cacheSize + 1
    /\ enq[1].by # enq[2].by

\* The output calls that have returned, by their time.
Returned == {t \in 1..now : \A p \in Producers : pt[p] # t}

AtRest == rpc \in {"init", "addwatch", "read", "sleep"}

\* The os.File objects that are open, and the descriptor numbers that refer
\* to a log file.
OpenFiles == {h \in 1..nfile : ~fileClosed[h]}
FileFds == {n \in Fds : fdtab[n] \in Inodes}

\* Files inotifyCb has opened and superseded files it has closed (os.File 1
\* and 2 were opened, and os.File 1 closed, before the watcher started).
Opened == nfile - 2
Closed == Cardinality({h \in 1..nfile : fileClosed[h]}) - 1

\* C14 as stated (one open and one close per event): at most one goroutine of
\* inotify runs, and between rotations the files opened and the files closed
\* by inotifyCb both equal the events read, and one os.File is open.
C14_OneOpenOneClosePerEvent ==
    /\ tasks <= 1
    /\ AtRest => /\ Opened = nread
                 /\ Closed = nread
                 /\ Cardinality(OpenFiles) = 1

\* C14 as amended: at most one goroutine of inotify runs; between rotations
\* the files opened and the files closed both equal the events read less
\* those whose OpenFile failed; and exactly one os.File is open, which is
\* fw.fp, on the one descriptor that refers to a log file.
C14_OneOpenOneClosePerOpenedEvent ==
    /\ tasks <= 1
    /\ tasks = 1 <=> rpc \in {"read", "cb_open", "cb_swap", "cb_dup2",
                               "cb_sleep", "rmwatch"}
    /\ AtRest => /\ Opened = nread - glog["open"]
                 /\ Closed = nread - glog["open"]
                 /\ OpenFiles = {fp}
                 /\ FileFds = {fileFd[fp]}

\* Two events have been read: one rotation went through and the OpenFile of
\* the other failed; the watcher is between rotations again.
C14_Witness ==
    /\ AtRest
    /\ nread = 2
    /\ Opened = 1
    /\ glog["open"] = 1

\* The sink is open on the file at the configured path: a write through
\* fw.fp lands in the file that is there.
OpenOnPath ==
    /\ path # NoFile
    /\ ~fileClosed[fp]
    /\ fdtab[fileFd[fp]] = path

\* The retry loop of run has used up the retries this model follows.
RetryCapped == rpc = "sleep" /\ ~ENABLED RunSleep

\* C15 (rotation completes): whenever the file at the configured path has
\* been moved away or deleted, the sink will be open on a new file at that
\* path. Runs that end in the capped retry loop are set aside: a run that
\* refutes this leaves the path empty with a step of the program pending
\* for ever or with none at all.
C15_RotationCompletes == (path = NoFile) ~> (OpenOnPath \/ RetryCapped)

\* C16 (OpenFile failure during a rotation): the step of inotifyCb in which
\* OpenFile fails prints one "open log file error" and changes nothing else
\* of the sink; and once an OpenFile has failed fw.fp stays an open os.File
\* on a descriptor that refers to a log file, so a WriteLog that loads it
\* finds it open.
C16_OpenFailureKeepsHandle ==
    /\ [][(rpc = "cb_open" /\ rpc' = "rmwatch") =>
             /\ glog' = [glog EXCEPT !["open"] = @ + 1]
             /\ UNCHANGED <<fp, fileClosed, fileFd, fdtab, nfile, content,
                            path, cbFp, cbOld>>]_vars
    /\ [](glog["open"] > 0 =>
             /\ ~fileClosed[fp]
             /\ fdtab[fileFd[fp]] \in Inodes
             /\ \A w \in Writers :
                   (wpc[w] = "write" /\ wfp[w] = fp) => ENABLED WriteLogWrite(w))

\* After one rotation the OpenFile of the next one has failed, and a record
\* written through fw.fp since is stored in the file the sink had open.
C16_Witness ==
    /\ glog["open"] = 1
    /\ Opened = 1
    /\ rpc = "sleep"
    /\ Len(content[fdtab[fileFd[fp]]]) > 0
    /\ \E w \in Writers : wpc[w] = "write" /\ wfp[w] = fp

\* C17 (watch initialization failure is not fatal): while the watcher is in
\* the sleep after a failed inotify, fw.fp is an open os.File on a descriptor
\* that refers to a log file; and as long as no rotation has taken place,
\* whatever failed meanwhile, fw.fp is the os.File WithInotify opened, no
\* write was refused, and every record whose WriteLog has returned is stored
\* once in the file that os.File was opened on.
C17_WatchFailureKeepsWriting ==
    /\ rpc = "sleep" =>
          /\ ~fileClosed[fp]
          /\ fdtab[fileFd[fp]] \in Inodes
    /\ Opened = 0 =>
          /\ fp = 2
          /\ ~fileClosed[fp]
          /\ fdtab[fileFd[fp]] = 1
          /\ lost = {}
          /\ \A r \in 1..nrec :
                ~InFlight(r) =>
                    Cardinality({k \in 1..Len(content[1]) : content[1][k] = r}) = 1

\* InotifyInit has failed as often as the environment makes it fail, the
\* watcher sleeps before its next attempt, and every record submitted
\* meanwhile is in the file.
C17_Witness ==
    /\ glog["init"] = MaxFails
    /\ rpc = "sleep"
    /\ Opened = 0
    /\ Len(content[1]) = MaxWrites

EntryOwners(r) ==
    (IF r \in cwpool THEN 1 ELSE 0)
    + Cardinality({p \in Producers : ppc[p] = "select" /\ prd[p] = r})
    + Cardinality({i \in 1..Len(ch) : ch[i] = r})
    + (IF kpc \in {"call", "wait"} /\ krd = r THEN 1 ELSE 0)

\* C27 (queue-entry ownership): every record entry that was allocated is held
\* by exactly one of the pool, one producer, the channel and the worker; an
\* entry enters the pool only by the worker's Put after the inner call; and
\* the bytes of an entry that is queued or being delivered are those of the
\* call that enqueued it.
C27_EntryHasOneOwner ==
    /\ \A r \in 1..nrd : EntryOwners(r) = 1
    /\ \A r \in PendingRd \cup (IF kpc = "wait" THEN {krd} ELSE {}) :
          rd[r].arr = Render(rd[r].t, rd[r].level, Msg)

\* C28 (colorWriter serializes its callers): at most one WriteLog is between
\* filling cw.b and the return of the inner call, it is the holder of cw.m,
\* and os.Stdout has received, for each output call that got past the
\* colorWriter, exactly one write, which is color + that record + reset.
C28_ColorOneAtATime ==
    /\ Cardinality({p \in Producers : ppc[p] = "color_write"}) <= 1
    /\ \A p \in Producers : ppc[p] = "color_write" <=> cwm = p
    /\ \A p \in Producers :
          ppc[p] = "color_write" =>
              cwb = Colored(plvl[p], Render(pt[p], plvl[p], Msg))
    /\ out = "color" =>
          \A t \in 1..now :
              (\A p \in Producers : pt[p] = t => ppc[p] = "put") =>
                  Cardinality({i \in 1..Len(console) :
                      \E lvl \in {Linfo, Lerror} :
                          console[i] = Colored(lvl, Render(t, lvl, Msg))}) = 1

\* One producer is inside the inner call of the colorWriter while the other
\* waits for cw.m, and os.Stdout has received records of both.
C28_Witness ==
    /\ \E p, q \in Producers : ppc[p] = "color_write" /\ ppc[q] = "color"
    /\ \E i, j \in 1..Len(console) : console[i][1] # console[j][1]

\* The entries of os.Stdout and of the file that belong to the call stamped t.
OnConsole(t) ==
    {i \in 1..Len(console) :
        \E lvl \in {Linfo, Lerror} :
            console[i] = Colored(lvl, Render(t, lvl, Msg))}
OnFile(t) == {i \in 1..Len(file) : file[i].t = t}

\* C23 (the colorWriter leaves the caller's payload alone): from the call of
\* out.WriteLog to l.pool.Put the caller's buffer holds the rendered record,
\* the console gets color + payload + reset, and the file sink that follows
\* the colorWriter in the fan-out gets the uncolored payload.
C23_ColorLeavesPayload ==
    /\ \A p \in Producers :
          Held(p) => mem[pbuf[p]] = Render(pt[p], plvl[p], Msg)
    /\ \A p \in Producers :
          ppc[p] = "color_write" =>
              Deref(ColorBuf(p)) = Colored(plvl[p], Render(pt[p], plvl[p], Msg))
    /\ \A i \in 1..Len(console) :
          \E t \in 1..now, lvl \in {Linfo, Lerror} :
              console[i] = Colored(lvl, Render(t, lvl, Msg))
    /\ \A i \in 1..Len(file) :
          file[i].s = Render(file[i].t, file[i].level, Msg)

\* The file has received a record that the console has received colored.
C23_Witness ==
    /\ out = "tee"
    /\ \E i \in 1..Len(file) :
          /\ file[i].s = Render(file[i].t, file[i].level, Msg)
          /\ \E j \in 1..Len(console) :
                console[j] = Colored(file[i].level, file[i].s)

\* C24 (the fan-out forwards to every sink once, in construction order): a
\* call that is through the loop has one entry on each sink, a call inside
\* the loop has one on the sinks before its position and none on the later
\* ones, and the file's entry has the call's timestamp, level and payload.
C24_FanOutOncePerSinkInOrder ==
    /\ \A t \in 1..now :
          /\ Cardinality(OnConsole(t)) <= 1
          /\ Cardinality(OnFile(t)) <= 1
          /\ OnFile(t) # {} => OnConsole(t) # {}
          /\ t \in Returned \/ (\E p \in Producers : pt[p] = t /\ ppc[p] = "put")
                => OnConsole(t) # {} /\ OnFile(t) # {}
    /\ \A p \in Producers :
          /\ ppc[p] \in {"color", "color_write"} =>
                OnConsole(pt[p]) = {} /\ OnFile(pt[p]) = {}
          /\ ppc[p] = "plain" => OnConsole(pt[p]) # {} /\ OnFile(pt[p]) = {}
          /\ ppc[p] = "put" =>
                \E i \in OnFile(pt[p]) :
                    file[i] = [t |-> pt[p], level |-> plvl[p],
                               s |-> Deref(BufSlice(pbuf[p]))]
    /\ Len(console) <= now /\ Len(file) <= now

\* Two calls are through the loop and a third is between its two sinks.
C24_Witness ==
    /\ out = "tee"
    /\ Len(file) = 2
    /\ Len(console) = 3
    /\ \E p \in Producers : ppc[p] = "plain"

\* C22 (a failed inner write stops nothing): the step in which an inner call
\* returns with a failed write changes no producer's state and adds no
\* report, puts the record back and leaves the worker at the channel; the
\* inner sink goes on receiving the accepted records in enqueue order, those
\* after a failed one included, and the worker is never out of its loop.
C22_WriteErrorNotPropagated ==
    /\ [][werr' # werr =>
            /\ kpc' = "recv"
            /\ (Len(ch) > 0 => ENABLED WorkerRecv)'
            /\ UNCHANGED <<ppc, pt, plvl, pbuf, prd, psent, diag, enq, ch, file>>
            /\ krd \in cwpool']_vars
    /\ [](/\ kpc \in {"recv", "call", "wait"}
          /\ Len(file) + Len(ch) + (IF kpc = "call" THEN 1 ELSE 0) = Len(enq)
          /\ \A i \in 1..Len(file) :
                file[i] = [t |-> enq[i].t, level |-> enq[i].level,
                           s |-> enq[i].s])

\* A write failed and the record queued behind it was delivered by a call
\* that has returned.
C22_Witness ==
    \E i, j \in 1..Len(file) :
        /\ i < j
        /\ file[i].t \in werr
        /\ file[j].t \notin werr
        /\ j <= InnerReturned

\* The inner calls made for the record stamped t, and whether t was accepted.
InnerCalls(t) == {i \in 1..Len(file) : file[i].t = t}
Accepted(t) == \E i \in 1..Len(enq) : enq[i].t = t

\* C26 (accepted records are delivered exactly once): with the worker
\* scheduled and every inner call returning, a record the cachedWriter has
\* accepted is eventually handed to the inner sink by a call that returns;
\* at no time has a record been handed over twice, and a record that was
\* dropped is never handed over.
C26_AcceptedDeliveredOnce ==
    /\ \A t \in 1..MaxCalls :
          Accepted(t) ~>
              (\E i \in InnerCalls(t) : i <= InnerReturned)
    /\ [](\A t \in 1..MaxCalls :
            /\ Cardinality(InnerCalls(t)) <= 1
            /\ InnerCalls(t) # {} => Accepted(t)
            /\ t \in sub /\ ~Accepted(t) => InnerCalls(t) = {})

\* A record was dropped, and the records accepted before and after the drop
\* have been delivered by calls that returned.
C26_Witness ==
    /\ Len(diag) = 1
    /\ InnerReturned = Len(enq)
    /\ \E t \in sub : /\ ~Accepted(t)
                       /\ \E a, b \in 1..Len(enq) : enq[a].t < t /\ t < enq[b].t

\* C25 (the payload is newline-terminated): every payload the sink received
\* ends with a newline, and with one newline only when the message ended
\* with one.
C25_PayloadNewlineTerminated ==
    \A k \in 1..Len(stderr) :
        LET b == stderr[k]
        IN /\ Len(b) > 0
           /\ b[Len(b)] = "\n"
           /\ Len(b) > 1 => b[Len(b) - 1] # "\n"

\* The calls made whose level is at or above the configured one, in order.
Passing(c) == c.m >= level
PassSeq == SelectSeq(hist, Passing)
InOutput == ppc[Caller] \in {"std", "std_write"}

\* C29 (level filtering): the sink has received, in order and once each, the
\* records of the calls made whose level is at or above l.level; a call below
\* l.level changes neither the sink nor the buffer pool nor the position of
\* its caller; the process has panicked or exited only in a Panic or Fatal
\* at or above l.level whose record the sink has received, and is past a
\* Panic or Fatal call otherwise only when that call was filtered out.
C29_LevelFiltering ==
    /\ [](/\ Len(stderr) = Len(PassSeq) - (IF InOutput THEN 1 ELSE 0)
          /\ \A k \in 1..Len(stderr) :
                stderr[k] = Render(k, PassSeq[k].m, PassSeq[k].s)
          /\ now = Len(PassSeq)
          /\ nbuf = (IF PassSeq = <<>> THEN 0 ELSE 1)
          /\ mpc \in {"panic", "exit"} =>
                /\ Passing(hist[Len(hist)])
                /\ hist[Len(hist)].m = (IF mpc = "panic" THEN Lpanic ELSE Lfatal)
                /\ Len(stderr) = Len(PassSeq)
          /\ mpc = "idle" /\ hist # <<>> /\ Passing(hist[Len(hist)]) =>
                hist[Len(hist)].m \notin {Lpanic, Lfatal})
    /\ [][hist' # hist /\ ~Passing(hist'[Len(hist')]) =>
            UNCHANGED <<stderr, pool, nbuf, mem, now, ppc, pbuf, mpc>>]_vars

\* A Panic below l.level returned to its caller, and a later Fatal at or
\* above l.level exited after the sink received its record.
C29_Witness ==
    /\ mpc = "exit"
    /\ Len(hist) = 2
    /\ hist[1].m = Lpanic
    /\ ~Passing(hist[1])
    /\ Len(stderr) = 1

\* C21 (a construction failure is raised): a MkdirAll or OpenFile of a
\* constructor has failed exactly when the construction ended in a panic;
\* then the failing constructor returned no sink, no goroutine of the
\* watcher runs and nothing is written; a sink the caller holds has an open
\* file; and the state in which WithInotify returns is the fully built one.
C21_ConstructionFailurePanics ==
    /\ [](/\ cerr # "nil" <=> cpc = "panic"
          /\ cpc = "panic" =>
                /\ "inotifyWriter" \notin sinks
                /\ rpc = "off"
                /\ tasks = 0
                /\ nrec = 0
                /\ "FileWriter" \in sinks <=> fp # NoFile
          /\ "FileWriter" \in sinks => fp # NoFile /\ fileFd[fp] \in Fds
          /\ "inotifyWriter" \in sinks <=> rpc # "off"
          /\ rpc # "off" => cpc = "done")
    /\ [][cpc # "done" /\ cpc' = "done" => InitRotate']_vars

\* NewFileWriter returned its sink and WithInotify then failed.
C21_Witness ==
    /\ cpc = "panic"
    /\ cerr # "nil"
    /\ sinks = {"FileWriter"}

====
